---------------------------- MODULE Spec2Model ----------------------------
(***************************************************************************)
(* CANDLE checkpoint/restart utilities for Keras                           *)
(* (common/ckpt_keras_utils.py): the ckpt-work / ckpt-good / ckpt-old      *)
(* rotation of CandleCheckpointCallback.on_epoch_end, the save policy of   *)
(* save_check, and restart / restart_json.                                 *)
(*                                                                         *)
(* One training process runs at a time.  A process is launched, calls      *)
(* restart(gParameters, model), builds the callback, and then Keras calls  *)
(* on_epoch_end once per epoch.  The process may die at any point (a crash *)
(* or an exception of a filesystem call); what is on disk stays.           *)
(***************************************************************************)
EXTENDS Integers, Sequences, FiniteSets, TLC

\* ------------------------------------------------------------- bounds
\* on_epoch_end calls of the job, over all its processes
MaxCalls == 3
MaxWeights == 2
MaxMetric == 1

\* math.inf (scan_params): strictly above every finite metric of the model
Inf == MaxMetric + 1

Epochs == 0..(MaxCalls - 1)
\* weights of a trained model; 0 is the freshly built (untrained) model and
\* -1 stands for whatever a damaged model.h5 yields when it loads at all
Weights == 1..MaxWeights
Metrics == 0..MaxMetric

\* ------------------------------------------------------ Python values
PyNone == <<"None">>
PyBool(b) == <<"bool", b>>
PyStr(s) == <<"str", s>>
PyNum(n) == <<"num", n>>

\* truth value of a Python object (the `if x`, `not x`, `and` of the source)
Truthy(v) ==
  CASE v[1] = "None" -> FALSE
    [] v[1] = "bool" -> v[2]
    [] v[1] = "str" -> v[2] # ""
    [] v[1] = "num" -> v[2] # 0

\* ------------------------------------------------- parameter resolver
enabled(gP, key) == key \in DOMAIN gP /\ Truthy(gP[key])

\* disabled that takes an absent key for one set false
disabled_absent(gP, key) == key \notin DOMAIN gP \/ ~Truthy(gP[key])

disabled(gP, key) == key \in DOMAIN gP /\ ~Truthy(gP[key])

param(gP, key, dflt) == IF key \in DOMAIN gP THEN gP[key] ELSE dflt

\* ------------------------------------------------------------- files
NoFile == <<"absent">>
Partial == <<"partial">>
H5(w) == <<"h5", w>>
Flipped(w) == <<"flipped", w>>

NoDir == [exists |-> FALSE, model |-> NoFile, json |-> NoFile, wck |-> "na"]
\* a directory: its two files, and one history field (wck: was checksumming
\* "on" or "off" when its model.h5 was checksummed; "na" before that) that no
\* operation of the program reads
Dir(m, j, c) == [exists |-> TRUE, model |-> m, json |-> j, wck |-> c]
EmptyDir == Dir(NoFile, NoFile, "na")

Exists(d) == d.exists
FileExists(d, f) == Exists(d) /\ d[f][1] # "absent"

\* zlib.crc32 over the whole file; a single flipped byte always changes it
Crc32(f) ==
  CASE f[1] = "h5" -> 2 * f[2]
    [] f[1] = "flipped" -> 2 * f[2] + 1
    [] f[1] = "partial" -> 0

checksum_file(f) == ToString(Crc32(f))

\* ------------------------------------------------------------- json
JsonToken(v) ==
  CASE v[1] = "None" -> <<"lit", "null">>
    [] v[1] = "bool" -> <<"lit", IF v[2] THEN "true" ELSE "false">>
    [] v[1] = "str" -> <<"string", v[2]>>
    [] v[1] = "num" -> IF v[2] = Inf THEN <<"lit", "Infinity">>
                                       ELSE <<"number", v[2]>>

JsonValue(t) ==
  CASE t[1] = "string" -> PyStr(t[2])
    [] t[1] = "number" -> PyNum(t[2])
    [] t[1] = "lit" ->
         CASE t[2] = "null" -> PyNone
           [] t[2] = "true" -> PyBool(TRUE)
           [] t[2] = "false" -> PyBool(FALSE)
           [] t[2] = "Infinity" -> PyNum(Inf)

\* json.dump(D, fp) and json.load(fp) of a dict with string keys
json_dump(D) == <<"json", [k \in DOMAIN D |-> JsonToken(D[k])]>>
json_load(f) == [k \in DOMAIN f[2] |-> JsonValue(f[2][k])]

\* ----------------------------------------------- CandleCheckpointCallback
\* the instance fields scan_params sets (save_weights_only, metadata and
\* timestamp_last decide nothing below and are left out), and cksum_model,
\* which checksum() sets
scan_params(gP) ==
  [skip_epochs |-> param(gP, "skip_epochs", PyNum(0)),
   save_best_only |-> param(gP, "save_best_only", PyBool(FALSE)),
   save_best_stat |-> param(gP, "save_best_stat", PyStr("loss")),
   best_stat_last |-> IF param(gP, "best_stat_last", PyNone)[1] = "None"
                        THEN PyNum(Inf)
                        ELSE param(gP, "best_stat_last", PyNone),
   checksum_enabled |-> param(gP, "checksum", PyBool(TRUE)),
   clean |-> param(gP, "clean", PyBool(FALSE)),
   cksum_model |-> ""]

\* save_check with a tie taken for an improvement (<= for <)
save_check_ties(self_, lg, ep) ==
  LET stat == self_.save_best_stat[2] IN
  IF ep < self_.skip_epochs[2]
    THEN [ret |-> "False", best_stat_last |-> self_.best_stat_last]
  ELSE IF ~Truthy(self_.save_best_only)
    THEN [ret |-> "True", best_stat_last |-> self_.best_stat_last]
  ELSE IF stat \notin DOMAIN lg
    THEN [ret |-> "raise", best_stat_last |-> self_.best_stat_last]
  ELSE IF lg[stat] <= self_.best_stat_last[2]
    THEN [ret |-> "True", best_stat_last |-> PyNum(lg[stat])]
  ELSE [ret |-> "False", best_stat_last |-> self_.best_stat_last]

\* save_check with the skip_epochs test after the best-only test
save_check_lateskip(self_, lg, ep) ==
  LET stat == self_.save_best_stat[2] IN
  IF ~Truthy(self_.save_best_only)
    THEN [ret |-> IF ep < self_.skip_epochs[2] THEN "False" ELSE "True",
          best_stat_last |-> self_.best_stat_last]
  ELSE IF stat \notin DOMAIN lg
    THEN [ret |-> "raise", best_stat_last |-> self_.best_stat_last]
  ELSE IF lg[stat] < self_.best_stat_last[2]
    THEN [ret |-> IF ep < self_.skip_epochs[2] THEN "False" ELSE "True",
          best_stat_last |-> PyNum(lg[stat])]
  ELSE [ret |-> "False", best_stat_last |-> self_.best_stat_last]

\* save_check that skips the epoch when the tracked metric is missing
save_check_silent(self_, lg, ep) ==
  LET stat == self_.save_best_stat[2] IN
  IF ep < self_.skip_epochs[2]
    THEN [ret |-> "False", best_stat_last |-> self_.best_stat_last]
  ELSE IF ~Truthy(self_.save_best_only)
    THEN [ret |-> "True", best_stat_last |-> self_.best_stat_last]
  ELSE IF stat \notin DOMAIN lg
    THEN [ret |-> "False", best_stat_last |-> self_.best_stat_last]
  ELSE IF lg[stat] < self_.best_stat_last[2]
    THEN [ret |-> "True", best_stat_last |-> PyNum(lg[stat])]
  ELSE [ret |-> "False", best_stat_last |-> self_.best_stat_last]

\* save_check that looks the tracked metric up before the best-only test
save_check_metricfirst(self_, lg, ep) ==
  LET stat == self_.save_best_stat[2] IN
  IF ep < self_.skip_epochs[2]
    THEN [ret |-> "False", best_stat_last |-> self_.best_stat_last]
  ELSE IF stat \notin DOMAIN lg
    THEN [ret |-> "raise", best_stat_last |-> self_.best_stat_last]
  ELSE IF ~Truthy(self_.save_best_only)
    THEN [ret |-> "True", best_stat_last |-> self_.best_stat_last]
  ELSE IF lg[stat] < self_.best_stat_last[2]
    THEN [ret |-> "True", best_stat_last |-> PyNum(lg[stat])]
  ELSE [ret |-> "False", best_stat_last |-> self_.best_stat_last]

\* save_check that records the last value of the metric, not the best
save_check_tracklast(self_, lg, ep) ==
  LET stat == self_.save_best_stat[2] IN
  IF ep < self_.skip_epochs[2]
    THEN [ret |-> "False", best_stat_last |-> self_.best_stat_last]
  ELSE IF ~Truthy(self_.save_best_only)
    THEN [ret |-> "True", best_stat_last |-> self_.best_stat_last]
  ELSE IF stat \notin DOMAIN lg
    THEN [ret |-> "raise", best_stat_last |-> self_.best_stat_last]
  ELSE IF lg[stat] < self_.best_stat_last[2]
    THEN [ret |-> "True", best_stat_last |-> PyNum(lg[stat])]
  ELSE [ret |-> "False", best_stat_last |-> PyNum(lg[stat])]

\* save_check(logs, epoch): what it returns ("True", "False", or "raise" for
\* the exception) and the best_stat_last it leaves
save_check(self_, lg, ep) ==
  LET stat == self_.save_best_stat[2] IN
  IF ep < self_.skip_epochs[2]
    THEN [ret |-> "False", best_stat_last |-> self_.best_stat_last]
  ELSE IF ~Truthy(self_.save_best_only)
    THEN [ret |-> "True", best_stat_last |-> self_.best_stat_last]
  ELSE IF stat \notin DOMAIN lg
    THEN [ret |-> "raise", best_stat_last |-> self_.best_stat_last]
  ELSE IF lg[stat] < self_.best_stat_last[2]
    THEN [ret |-> "True", best_stat_last |-> PyNum(lg[stat])]
  ELSE [ret |-> "False", best_stat_last |-> self_.best_stat_last]

\* checksum that keeps the value of the previous save
checksum_stale(self_, d) == self_.cksum_model

\* checksum that computes the value whatever checksum_enabled is
checksum_always(self_, d) == checksum_file(d.model)

\* checksum(dir_work): the value stored in self.cksum_model
checksum(self_, d) ==
  IF Truthy(self_.checksum_enabled) THEN checksum_file(d.model)
                                    ELSE "__DISABLED__"

\* the dict D of write_json (timestamp, time_elapsed and metadata left out:
\* time is not modelled)
Descriptor(self_, ep) ==
  [epoch |-> PyNum(ep),
   save_best_only |-> self_.save_best_only,
   save_best_stat |-> self_.save_best_stat,
   best_stat_last |-> self_.best_stat_last,
   model_file |-> PyStr("model.h5"),
   checksum |-> PyStr(self_.cksum_model)]

\* write_json(jsonfile, epoch): the content of ckpt-info.json
write_json(self_, ep) == json_dump(Descriptor(self_, ep))

\* ------------------------------------------------------------- restart
NoJ == [epoch |-> PyNone]
Raise(exc, m) == [kind |-> "raise", exc |-> exc, J |-> NoJ, model |-> m]
ReturnNone(m) == [kind |-> "None", exc |-> "", J |-> NoJ, model |-> m]
ReturnJ(J, m) == [kind |-> "J", exc |-> "", J |-> J, model |-> m]

\* restart_json that verifies only when "checksum" is set true
restart_json_enabled(gP, d, m) ==
  IF d.json[1] = "absent"
    THEN IF ~disabled(gP, "require_json")
           THEN Raise("Exception", m)
           ELSE Raise("FileNotFoundError", m)
  ELSE IF d.json[1] = "partial"
    THEN Raise("JSONDecodeError", m)
  ELSE LET J == json_load(d.json) IN
       IF enabled(gP, "checksum")
            /\ PyStr(checksum_file(d.model)) # J["checksum"]
         THEN Raise("TypeError", m)
         ELSE ReturnJ(J, m)

\* restart_json(gParameters, logger, directory)
restart_json(gP, d, m) ==
  IF d.json[1] = "absent"
    THEN IF ~disabled(gP, "require_json")
           THEN Raise("Exception", m)
           ELSE Raise("FileNotFoundError", m)       \* open(json_file)
  ELSE IF d.json[1] = "partial"
    THEN Raise("JSONDecodeError", m)                \* json.load(fp)
  ELSE LET J == json_load(d.json) IN
       IF ~disabled(gP, "checksum")
            /\ PyStr(checksum_file(d.model)) # J["checksum"]
         THEN Raise("TypeError", m)                 \* "..." % directory
         ELSE ReturnJ(J, m)

\* model.load_weights(model_file): the weights the model holds afterwards,
\* or "raise"; a damaged file that still opens loads damaged weights (-1)
load_weights(f) ==
  CASE f[1] = "h5" -> {<<"loaded", f[2]>>}
    [] f[1] = "flipped" -> {<<"loaded", -1>>, <<"raise">>}
    [] f[1] = "partial" -> {<<"raise">>}

\* restart that returns the descriptor without load_weights
restart_noload(gP, m, good) ==
  IF disabled(gP, "restart") THEN {ReturnNone(m)}
  ELSE IF ~FileExists(good, "model") THEN {ReturnNone(m)}
  ELSE {restart_json(gP, good, m)}

\* restart that tests enabled(gParameters, "restart") the wrong way round
restart_inverted(gP, m, good) ==
  IF enabled(gP, "restart") THEN {ReturnNone(m)}
  ELSE IF ~FileExists(good, "model") THEN {ReturnNone(m)}
  ELSE LET r == restart_json(gP, good, m) IN
       IF r.kind = "raise" THEN {r}
       ELSE {IF o[1] = "raise" THEN Raise("OSError", m) ELSE ReturnJ(r.J, o[2]) :
               o \in load_weights(good.model)}

\* restart(gParameters, model): the set of possible outcomes, each with what
\* is returned or raised and the weights the model holds afterwards
restart(gP, m, good) ==
  IF disabled(gP, "restart") THEN {ReturnNone(m)}
  ELSE IF ~FileExists(good, "model") THEN {ReturnNone(m)}
  ELSE LET r == restart_json(gP, good, m) IN
       IF r.kind = "raise" THEN {r}
       ELSE {IF o[1] = "raise" THEN Raise("OSError", m) ELSE ReturnJ(r.J, o[2]) :
               o \in load_weights(good.model)}

\* ---------------------------------------------------------------- state
VARIABLES
  disk,         \* save/ckpt-work, save/ckpt-good, save/ckpt-old
  pc,           \* where the training process is
  hparams,      \* the job's hyperparameters: the keys only the callback reads
  gParameters,  \* the dict given to restart and to the callback
  model,        \* the weights of the process's model
  self,         \* the callback's fields
  epoch,        \* the epoch Keras runs (the argument of on_epoch_end)
  do_clean,     \* the local of on_epoch_end
  result,       \* what restart returned or raised
  calls,        \* on_epoch_end calls so far, over all processes of the job
  accepted,     \* history: the metric values this callback saved on (best-only)
  call,         \* history: the on_epoch_end call in progress, or the last one
  saved,        \* history: the last save event that returned, if none began since
  promoted      \* history: the last snapshot renamed to ckpt-good, if any

vars == <<disk, pc, hparams, gParameters, model, self, epoch, do_clean, result,
          calls, accepted, call, saved, promoted>>

\* the keys restart reads, and the ones only the callback reads
RestartValues ==
  [restart |-> {PyBool(FALSE), PyStr("OFF"), PyStr("AUTO"), PyStr("REQUIRED")},
   require_json |-> {PyBool(TRUE), PyBool(FALSE)},
   checksum |-> {PyBool(TRUE), PyBool(FALSE)}]
CallbackValues ==
  [skip_epochs |-> {PyNum(1)},
   save_best_only |-> {PyBool(TRUE)},
   best_stat_last |-> {PyNum(MaxMetric)},
   clean |-> {PyBool(TRUE)}]

\* the dicts that give some of the keys of V a value of V[key]
Dicts(V) ==
  UNION {{g \in [S -> UNION {V[k] : k \in S}] :
            \A k \in S : g[k] \in V[k]} : S \in SUBSET DOMAIN V}
RestartParams == Dicts(RestartValues)
\* the settings a job's processes are launched with
LaunchValues == [checksum |-> {PyBool(FALSE)}]
LaunchParams == Dicts(LaunchValues)
\* best_stat_last is supplied only to a callback that saves best-only
CallbackParams ==
  {h \in Dicts(CallbackValues) :
     "best_stat_last" \in DOMAIN h => "save_best_only" \in DOMAIN h}

\* the logs of an epoch: the metrics Keras reports
LogsSpace == {[n \in {"acc"} |-> 0]} \cup
             {[n \in {"acc", "loss"} |-> IF n = "loss" THEN v ELSE 0] :
                v \in Metrics}

NoDict == [k \in {} |-> PyNone]
NoSelf == [skip_epochs |-> PyNone]
NoResult == [kind |-> "", exc |-> "", J |-> NoJ, model |-> 0]
NoCall == [at |-> "", epoch |-> 0, logs |-> NoDict, had_good |-> FALSE,
           dirty |-> FALSE, good |-> NoDir, old |-> NoDir, best |-> PyNone,
           accepted |-> {}, ret |-> ""]
NoSave == [epoch |-> -1, model |-> 0, wck |-> "na"]
NoPromoted == [epoch |-> -1, model |-> 0]

Init ==
  /\ disk = [work |-> NoDir, good |-> NoDir, old |-> NoDir]
  /\ pc = "off"
  /\ hparams \in CallbackParams
  /\ gParameters = NoDict
  /\ model = 0
  /\ self = NoSelf
  /\ epoch = 0
  /\ do_clean = PyBool(FALSE)
  /\ result = NoResult
  /\ calls = 0
  /\ accepted = {}
  /\ call = NoCall
  /\ saved = NoSave
  /\ promoted = NoPromoted

\* --------------------------------------------------------------- actions
Idle == pc = "off"
SavePcs == {"write_model", "write_json", "rm_old", "rename_good",
            "rename_work", "clean"}

\* the dict of a process: the job's hyperparameters and the keys restart reads
Merge(g, h) ==
  [k \in DOMAIN g \cup DOMAIN h |-> IF k \in DOMAIN h THEN h[k] ELSE g[k]]

\* a restart that clears an orphaned ckpt-work out of the way
RestartWith_cleanup(P) ==
  /\ Idle
  /\ \E g \in P :
       \E o \in restart(Merge(g, hparams), 0, disk.good) :
       /\ gParameters' = Merge(g, hparams)
       /\ result' = o
       /\ model' = o.model
       /\ pc' = IF o.kind = "raise" THEN "failed" ELSE "restarted"
  /\ disk' = [disk EXCEPT !.work = NoDir]
  /\ self' = NoSelf
  /\ epoch' = 0
  /\ do_clean' = PyBool(FALSE)
  /\ UNCHANGED <<hparams, calls, accepted, call, saved, promoted>>

\* A process starts with a freshly built model (weights 0) and calls
\* restart(gParameters, model); an exception ends the process.
RestartWith(P) ==
  /\ Idle
  /\ \E g \in P :
       \E o \in restart(Merge(g, hparams), 0, disk.good) :
       /\ gParameters' = Merge(g, hparams)
       /\ result' = o
       /\ model' = o.model
       /\ pc' = IF o.kind = "raise" THEN "failed" ELSE "restarted"
  /\ self' = NoSelf
  /\ epoch' = 0
  /\ do_clean' = PyBool(FALSE)
  /\ UNCHANGED <<disk, hparams, calls, accepted, call, saved, promoted>>

Restart == RestartWith(LaunchParams)

\* The usage of the module docstring: initial_epoch = J['epoch'] when restart
\* returned J, else 0; then CandleCheckpointCallback(gParameters).  The dict is
\* not read after scan_params, nor J after initial_epoch: both are dropped.
Construct ==
  /\ pc = "restarted"
  /\ self' = scan_params(gParameters)
  /\ epoch' = IF result.kind = "J" THEN result.J["epoch"][2] ELSE 0
  /\ gParameters' = NoDict
  /\ result' = NoResult
  /\ call' = NoCall
  /\ pc' = "fit"
  /\ UNCHANGED <<disk, hparams, model, do_clean, calls, accepted, saved,
                 promoted>>

\* on_epoch_end, lines 142-148, for the logs lg of the epoch:
\* makedirs(dir_work); save_check.
OnEpochEnd ==
  /\ pc = "fit"
  /\ calls < MaxCalls
  /\ calls' = calls + 1
  /\ \E lg \in LogsSpace :
       LET sc == save_check(self, lg, epoch) IN
       /\ disk' = IF Exists(disk.work) THEN disk
                                       ELSE [disk EXCEPT !.work = EmptyDir]
       /\ self' = [self EXCEPT !.best_stat_last = sc.best_stat_last]
       /\ call' = [at |-> IF sc.ret = "True" THEN "running"
                          ELSE IF sc.ret = "False" THEN "returned" ELSE "raised",
                    epoch |-> epoch, logs |-> lg,
                    had_good |-> Exists(disk.good),
                    dirty |-> Exists(disk.work) /\
                              "partial" \in {disk.work.model[1],
                                             disk.work.json[1]},
                    good |-> disk.good, old |-> disk.old,
                    best |-> self.best_stat_last, accepted |-> accepted,
                    ret |-> sc.ret]
       /\ accepted' = IF Truthy(self.save_best_only) /\ sc.ret = "True"
                        THEN accepted \cup {lg[self.save_best_stat[2]]}
                        ELSE accepted
       /\ pc' = IF sc.ret = "True" THEN "write_model"
                ELSE IF sc.ret = "False" THEN "fit" ELSE "failed"
       /\ epoch' = IF sc.ret = "False" THEN epoch + 1 ELSE epoch
       /\ saved' = IF sc.ret = "True" THEN NoSave ELSE saved
  /\ UNCHANGED <<hparams, gParameters, model, do_clean, result, promoted>>

\* write_model, lines 199-210: model.save(model_file), then checksum(dir_work).
\* Training has brought self.model to some weights w by now.
WriteModel ==
  /\ pc = "write_model"
  /\ \E w \in Weights :
       LET d == [disk.work EXCEPT !.model = H5(w),
                                  !.wck = IF Truthy(self.checksum_enabled)
                                             THEN "on" ELSE "off"] IN
       /\ model' = w
       /\ disk' = [disk EXCEPT !.work = d]
       /\ self' = [self EXCEPT !.cksum_model = checksum(self, d)]
  /\ pc' = "write_json"
  /\ UNCHANGED <<hparams, gParameters, epoch, do_clean, result, calls,
                 accepted, call, saved, promoted>>

\* write_model, line 211: write_json(dir_work + "/ckpt-info.json", epoch)
WriteJson ==
  /\ pc = "write_json"
  /\ disk' = [disk EXCEPT !.work.json = write_json(self, epoch)]
  /\ pc' = "rm_old"
  /\ UNCHANGED <<hparams, gParameters, model, self, epoch, do_clean, result,
                 calls, accepted, call, saved, promoted>>

\* on_epoch_end, lines 151-153
RemoveOld ==
  /\ pc = "rm_old"
  /\ disk' = IF Exists(disk.old) THEN [disk EXCEPT !.old = NoDir] ELSE disk
  /\ pc' = "rename_good"
  /\ UNCHANGED <<hparams, gParameters, model, self, epoch, do_clean, result,
                 calls, accepted, call, saved, promoted>>

\* lines 154-159 with ckpt-good removed instead of renamed to ckpt-old
RenameGood_rmtree ==
  /\ pc = "rename_good"
  /\ IF Exists(disk.good)
       THEN /\ disk' = [disk EXCEPT !.good = NoDir]
            /\ do_clean' = self.clean
       ELSE /\ disk' = disk
            /\ do_clean' = PyBool(FALSE)
  /\ pc' = "rename_work"
  /\ UNCHANGED <<hparams, gParameters, model, self, epoch, result, calls,
                 accepted, call, saved, promoted>>

\* on_epoch_end, lines 154-159
RenameGood ==
  /\ pc = "rename_good"
  /\ IF Exists(disk.good)
       THEN /\ disk' = [disk EXCEPT !.old = disk.good, !.good = NoDir]
            /\ do_clean' = self.clean
       ELSE /\ disk' = disk
            /\ do_clean' = PyBool(FALSE)
  /\ pc' = "rename_work"
  /\ UNCHANGED <<hparams, gParameters, model, self, epoch, result, calls,
                 accepted, call, saved, promoted>>

\* on_epoch_end, lines 160-161
RenameWork ==
  /\ pc = "rename_work"
  /\ disk' = [disk EXCEPT !.good = disk.work, !.work = NoDir]
  /\ promoted' = [epoch |-> epoch, model |-> model]
  /\ pc' = "clean"
  /\ UNCHANGED <<hparams, gParameters, model, self, epoch, do_clean, result,
                 calls, accepted, call, saved>>

\* lines 162-164 with ckpt-old removed whatever do_clean is
Clean_unconditional ==
  /\ pc = "clean"
  /\ disk' = [disk EXCEPT !.old = NoDir]
  /\ do_clean' = PyBool(FALSE)
  /\ call' = [call EXCEPT !.at = "returned"]
  /\ saved' = [epoch |-> epoch, model |-> model,
               wck |-> IF Truthy(self.checksum_enabled) THEN "on" ELSE "off"]
  /\ epoch' = epoch + 1
  /\ pc' = "fit"
  /\ UNCHANGED <<hparams, gParameters, model, self, result, calls, accepted,
                 promoted>>

\* on_epoch_end, lines 162-164, and the return to Keras
Clean ==
  /\ pc = "clean"
  /\ disk' = IF Truthy(do_clean) THEN [disk EXCEPT !.old = NoDir] ELSE disk
  /\ do_clean' = PyBool(FALSE)
  /\ call' = [call EXCEPT !.at = "returned"]
  /\ saved' = [epoch |-> epoch, model |-> model,
               wck |-> IF Truthy(self.checksum_enabled) THEN "on" ELSE "off"]
  /\ epoch' = epoch + 1
  /\ pc' = "fit"
  /\ UNCHANGED <<hparams, gParameters, model, self, result, calls, accepted,
                 promoted>>

\* the last rmtree of on_epoch_end taken to remove ckpt-good, not ckpt-old
CrashOutcomes_rmgood ==
  CASE pc = "write_model" ->
         {disk, [disk EXCEPT !.work.model = Partial]}
    [] pc = "write_json" ->
         {disk, [disk EXCEPT !.work.json = Partial]}
    [] pc = "rm_old" /\ Exists(disk.old) ->
         {disk, [disk EXCEPT !.old = EmptyDir]}
    [] pc = "clean" /\ Truthy(do_clean) ->
         {disk, [disk EXCEPT !.good = EmptyDir]}
    [] OTHER -> {disk}

\* What a step that dies half-way can leave behind: model.save and the
\* descriptor's write are not atomic, nor is rmtree; the renames are.
CrashOutcomes ==
  CASE pc = "write_model" ->
         {disk, [disk EXCEPT !.work.model = Partial]}
    [] pc = "write_json" ->
         {disk, [disk EXCEPT !.work.json = Partial]}
    [] pc = "rm_old" /\ Exists(disk.old) ->
         {disk, [disk EXCEPT !.old = EmptyDir]}
    [] pc = "clean" /\ Truthy(do_clean) ->
         {disk, [disk EXCEPT !.old = EmptyDir]}
    [] OTHER -> {disk}

\* The process dies (killed, or an exception of the step it is in) or ends;
\* every in-memory value is lost, the disk stays.  (Dying between restart and
\* the callback's construction leaves what not starting leaves.)
Crash ==
  /\ pc \in {"failed", "fit"} \cup SavePcs
  /\ \E d \in CrashOutcomes : disk' = d
  /\ call' = IF pc \in SavePcs
               THEN [NoCall EXCEPT !.at = pc, !.had_good = call.had_good,
                                   !.dirty = call.dirty]
               ELSE NoCall
  /\ pc' = "off"
  /\ gParameters' = NoDict
  /\ model' = 0
  /\ self' = NoSelf
  /\ epoch' = 0
  /\ do_clean' = PyBool(FALSE)
  /\ result' = NoResult
  /\ accepted' = {}
  /\ UNCHANGED <<hparams, calls, saved, promoted>>

Next ==
  \/ Restart
  \/ Construct
  \/ OnEpochEnd
  \/ WriteModel
  \/ WriteJson
  \/ RemoveOld
  \/ RenameGood
  \/ RenameWork
  \/ Clean
  \/ Crash

Spec == Init /\ [][Next]_vars

\* ------------------------------------------------ restart, on any snapshot
\* The snapshot a save event of a callback with fields self_ leaves in
\* ckpt-good for weights w and epoch ep (write_model, then the promotion).
Snapshot(self_, w, ep) ==
  LET d == Dir(H5(w), NoFile, IF Truthy(self_.checksum_enabled)
                                THEN "on" ELSE "off") IN
  [d EXCEPT !.json = write_json([self_ EXCEPT !.cksum_model = checksum(self_, d)],
                                ep)]

Snapshots ==
  {Snapshot([scan_params(Merge(g, h)) EXCEPT !.best_stat_last = PyNum(b)], w, ep) :
     g \in LaunchParams, h \in CallbackParams, b \in {MaxMetric, Inf},
     w \in Weights, ep \in Epochs}

\* restart is called on what a job left behind: nothing, or a snapshot
InitR ==
  /\ \E d \in Snapshots \cup {NoDir} :
       /\ disk = [work |-> NoDir, good |-> d, old |-> NoDir]
       /\ promoted = IF Exists(d)
                       THEN [epoch |-> json_load(d.json)["epoch"][2],
                             model |-> d.model[2]]
                       ELSE NoPromoted
  /\ pc = "off"
  /\ hparams = NoDict
  /\ gParameters = NoDict
  /\ model = 0
  /\ self = NoSelf
  /\ epoch = 0
  /\ do_clean = PyBool(FALSE)
  /\ result = NoResult
  /\ calls = 0
  /\ accepted = {}
  /\ call = NoCall
  /\ saved = NoSave

\* Storage damage between runs, the case restart_json's checksum test is
\* there for: one byte of ckpt-good/model.h5 is flipped.
FlipByte ==
  /\ Idle
  /\ FileExists(disk.good, "model")
  /\ disk.good.model[1] = "h5"
  /\ disk' = [disk EXCEPT !.good.model = Flipped(disk.good.model[2])]
  /\ UNCHANGED <<pc, hparams, gParameters, model, self, epoch, do_clean,
                 result, calls, accepted, call, saved, promoted>>

\* The case restart_json's "model exists but not json" branch is there for:
\* ckpt-good holds model.h5 and no ckpt-info.json.
LoseDescriptor ==
  /\ Idle
  /\ FileExists(disk.good, "json")
  /\ disk' = [disk EXCEPT !.good.json = NoFile]
  /\ UNCHANGED <<pc, hparams, gParameters, model, self, epoch, do_clean,
                 result, calls, accepted, call, saved, promoted>>

\* restart(gParameters, model) for any setting of the keys it reads
RestartAny == RestartWith(RestartParams)

NextR ==
  \/ FlipByte
  \/ LoseDescriptor
  \/ RestartAny

SpecRestart == InitR /\ [][NextR]_vars

\* ------------------------------------------- the parameter resolver alone
\* values a configuration can give a key: every kind of Python value the
\* hyperparameters take, true and false ones
ConfigValues ==
  {PyBool(TRUE), PyBool(FALSE), PyStr("AUTO"), PyStr(""), PyNum(1), PyNum(0),
   PyNone}
\* the keys asked for; "metadata" is in no configuration
ConfigKeys == {"restart", "clean", "metadata"}
ConfigSpace == Dicts([restart |-> ConfigValues, clean |-> ConfigValues])

\* what a call of enabled, disabled or param was asked and what it returned
Answer(fn, key, dflt, v) == [kind |-> fn, key |-> key, dflt |-> dflt, value |-> v]

InitP ==
  /\ disk = [work |-> NoDir, good |-> NoDir, old |-> NoDir]
  /\ pc = "off"
  /\ hparams = NoDict
  /\ gParameters \in ConfigSpace
  /\ model = 0
  /\ self = NoSelf
  /\ epoch = 0
  /\ do_clean = PyBool(FALSE)
  /\ result = NoResult
  /\ calls = 0
  /\ accepted = {}
  /\ call = NoCall
  /\ saved = NoSave
  /\ promoted = NoPromoted

CallEnabled ==
  /\ \E key \in ConfigKeys :
       result' = Answer("enabled", key, PyNone, enabled(gParameters, key))
  /\ UNCHANGED <<disk, pc, hparams, gParameters, model, self, epoch, do_clean,
                 calls, accepted, call, saved, promoted>>

CallDisabled ==
  /\ \E key \in ConfigKeys :
       result' = Answer("disabled", key, PyNone, disabled(gParameters, key))
  /\ UNCHANGED <<disk, pc, hparams, gParameters, model, self, epoch, do_clean,
                 calls, accepted, call, saved, promoted>>

CallParam ==
  /\ \E key \in ConfigKeys, dflt \in {PyNone, PyBool(TRUE), PyNum(0)} :
       result' = Answer("param", key, dflt, param(gParameters, key, dflt))
  /\ UNCHANGED <<disk, pc, hparams, gParameters, model, self, epoch, do_clean,
                 calls, accepted, call, saved, promoted>>

NextP ==
  \/ CallEnabled
  \/ CallDisabled
  \/ CallParam

SpecParam == InitP /\ [][NextP]_vars

\* ================================================================ properties
\* a key explicitly set to a false value, in the words of the specification
SetFalse(g, k) ==
  k \in DOMAIN g /\ (g[k][1] = "bool" /\ ~g[k][2])

\* the least element of a non-empty set of numbers
MinOf(S) == CHOOSE x \in S : \A y \in S : x <= y

\* an on_epoch_end call that passed save_check is running
Saving == pc \in SavePcs /\ call.at = "running"
\* such a call has returned, and nothing was called since
Saved == pc = "fit" /\ call.at = "returned" /\ call.ret = "True"
\* the process died inside such a call, at the step call.at
DiedSaving == pc = "off" /\ call.at \in SavePcs

\* a directory holding a complete snapshot: both files whole
Complete(d) == Exists(d) /\ d.model[1] = "h5" /\ d.json[1] = "json"

\* the complete snapshot the running (or just returned) save event writes
NewSnapshot ==
  Dir(H5(model),
      json_dump([epoch |-> PyNum(call.epoch),
                 save_best_only |-> self.save_best_only,
                 save_best_stat |-> self.save_best_stat,
                 best_stat_last |-> self.best_stat_last,
                 model_file |-> PyStr("model.h5"),
                 checksum |-> PyStr(IF Truthy(self.checksum_enabled)
                                      THEN ToString(Crc32(H5(model)))
                                      ELSE "__DISABLED__")]),
      IF Truthy(self.checksum_enabled) THEN "on" ELSE "off")

\* C1 as stated: through a save event started while ckpt-good exists,
\* ckpt-good exists in every state of the call, between the rotation steps
\* too, and is the previous snapshot or the new one; a crash at any point of
\* the call leaves ckpt-good present.
C1_GoodNeverMissing ==
  /\ (Saving \/ Saved) /\ call.had_good =>
       /\ Exists(disk.good)
       /\ disk.good = call.good \/ disk.good = NewSnapshot
  /\ DiedSaving /\ call.had_good => Exists(disk.good)

\* C1 amended: through a save event started while ckpt-good exists,
\* ckpt-good is the previous snapshot up to the rename good -> old and the new
\* one from the rename work -> good on; between the two renames ckpt-good
\* does not exist, the previous snapshot is ckpt-old and the new one is
\* ckpt-work, both complete.  A crash leaves ckpt-good present except
\* between the two renames, where it leaves a complete ckpt-old and ckpt-work
\* and no ckpt-good.
C1_GoodOrWindow ==
  /\ (Saving \/ Saved) /\ call.had_good =>
       IF pc = "rename_work"
         THEN /\ ~Exists(disk.good)
              /\ disk.old = call.good
              /\ disk.work = NewSnapshot
         ELSE /\ Exists(disk.good)
              /\ IF pc \in {"write_model", "write_json", "rm_old",
                             "rename_good"}
                   THEN disk.good = call.good
                   ELSE disk.good = NewSnapshot
  /\ DiedSaving /\ call.had_good =>
       IF call.at = "rename_work"
         THEN ~Exists(disk.good) /\ Complete(disk.old) /\ Complete(disk.work)
         ELSE Complete(disk.good)

\* the window of C1: a save event that began with a ckpt-good, between its
\* two renames
C1_Witness ==
  /\ Saving /\ call.had_good /\ pc = "rename_work"
  /\ disk.old = call.good /\ disk.work = NewSnapshot

\* C2: whenever ckpt-good exists it holds a whole model.h5 and a whole
\* ckpt-info.json, and when checksumming was enabled as it was written the
\* descriptor's checksum is the checksum of that model.h5 (crashes at any
\* step, and saves that reuse a partly written ckpt-work, included).
C2_GoodIsComplete ==
  Exists(disk.good) =>
    /\ Complete(disk.good)
    /\ disk.good.wck \in {"on", "off"}
    /\ disk.good.wck = "on" =>
         json_load(disk.good.json)["checksum"]
           = PyStr(ToString(Crc32(disk.good.model)))

\* a save event that found a partly written ckpt-work has promoted it
C2_Witness ==
  /\ Saved /\ call.dirty
  /\ Complete(disk.good) /\ disk.good.wck = "on"

\* C3: round trip.  After a save event for weights W and epoch e has
\* returned, a restart that is not disabled and has the checksum setting of
\* the save returns a descriptor with epoch e and leaves the second model
\* with weights W.
C3_RoundTrip ==
  /\ result.kind # ""
  /\ saved # NoSave
  /\ ~SetFalse(gParameters, "restart")
  /\ (saved.wck = "off") <=> SetFalse(gParameters, "checksum")
  => /\ result.kind = "J"
     /\ result.J["epoch"] = PyNum(saved.epoch)
     /\ model = saved.model

\* a restart right after a save event of a later epoch, checksumming off
C3_Witness ==
  /\ pc = "restarted" /\ result.kind = "J"
  /\ saved.epoch >= 1 /\ saved.model = MaxWeights /\ model = MaxWeights
  /\ saved.wck = "off"

\* the callback is alive and call describes its latest on_epoch_end call
LiveCall == call.at \in {"running", "returned", "raised"}
\* the value best_stat_last starts from: the one supplied, else math.inf
Start ==
  IF "best_stat_last" \in DOMAIN hparams THEN hparams["best_stat_last"][2]
                                         ELSE Inf
Tracked == "loss"

\* C4: when checksumming is not set false and the checksum of
\* ckpt-good/model.h5 differs from the one the descriptor records, a restart
\* that is not disabled raises and leaves the model's weights as they were;
\* restart returns no descriptor whose checksum it was to verify and that
\* does not match.
C4_CorruptionRejected ==
  result.kind # "" /\ ~SetFalse(gParameters, "restart")
    /\ ~SetFalse(gParameters, "checksum")
    /\ FileExists(disk.good, "model") /\ disk.good.json[1] = "json"
    /\ json_load(disk.good.json)["checksum"]
         # PyStr(ToString(Crc32(disk.good.model)))
  => /\ result.kind = "raise"
     /\ model = 0

\* a restart with no checksum key has refused a model.h5 with a flipped byte
C4_Witness ==
  /\ pc = "failed" /\ result.exc = "TypeError"
  /\ "checksum" \notin DOMAIN gParameters
  /\ disk.good.model[1] = "flipped" /\ disk.good.wck = "on"
  /\ model = 0

\* C5: best-only saving.  best_stat_last is always the least of the start
\* value and the values accepted so far, and a call at an epoch >=
\* skip_epochs returns true exactly when its value of the tracked metric is
\* strictly below that least value as it was before the call: a tie returns
\* false.
C5_SaveIffImproved ==
  /\ ("save_best_only" \in DOMAIN self /\ Truthy(self.save_best_only)) =>
       self.best_stat_last = PyNum(MinOf(accepted \cup {Start}))
  /\ (LiveCall /\ Truthy(self.save_best_only)
        /\ call.epoch >= self.skip_epochs[2]
        /\ Tracked \in DOMAIN call.logs) =>
       /\ (call.ret = "True")
            <=> (call.logs[Tracked] < MinOf(call.accepted \cup {Start}))
       /\ call.logs[Tracked] = call.best[2] => call.ret = "False"

\* a tie with an earlier accepted value has just been turned down
C5_Witness ==
  /\ LiveCall /\ Truthy(self.save_best_only)
  /\ call.epoch >= self.skip_epochs[2]
  /\ Tracked \in DOMAIN call.logs
  /\ call.accepted # {}
  /\ call.logs[Tracked] = call.best[2]
  /\ call.ret = "False" /\ pc = "fit"

\* C6: a call at an epoch below skip_epochs returns false whatever the logs,
\* leaves best_stat_last as it was and rotates nothing: ckpt-good and
\* ckpt-old are as before the call.
C6_SkipEpochs ==
  (LiveCall /\ call.epoch < self.skip_epochs[2]) =>
    /\ call.ret = "False"
    /\ pc = "fit"
    /\ self.best_stat_last = call.best
    /\ disk.good = call.good /\ disk.old = call.old

\* a skipped epoch whose metric would have beaten best_stat_last
C6_Witness ==
  /\ LiveCall /\ call.epoch < self.skip_epochs[2]
  /\ Truthy(self.save_best_only)
  /\ Tracked \in DOMAIN call.logs
  /\ call.logs[Tracked] < call.best[2]
  /\ call.ret = "False"

\* C7: best-only saving, epoch >= skip_epochs, tracked metric missing from
\* the logs: the call raises, and ckpt-good, ckpt-old and best_stat_last are
\* as before the call.
C7_MissingMetricRaises ==
  (LiveCall /\ Truthy(self.save_best_only)
    /\ call.epoch >= self.skip_epochs[2]
    /\ Tracked \notin DOMAIN call.logs) =>
    /\ call.ret = "raise"
    /\ pc = "failed"
    /\ self.best_stat_last = call.best
    /\ disk.good = call.good /\ disk.old = call.old

\* the call has raised while a ckpt-good was on disk
C7_Witness ==
  /\ pc = "failed" /\ call.at = "raised" /\ call.ret = "raise"
  /\ Tracked \notin DOMAIN call.logs
  /\ call.had_good /\ disk.good = call.good

\* C8 as stated: ckpt-good/model.h5 exists and ckpt-info.json does not.  With
\* require_json absent or true restart raises; with require_json set false
\* it does not raise and loads the weights.
C8_RelaxedDescriptorLoads ==
  (result.kind # "" /\ ~SetFalse(gParameters, "restart")
    /\ FileExists(disk.good, "model") /\ ~FileExists(disk.good, "json")) =>
    IF SetFalse(gParameters, "require_json")
      THEN disk.good.model[1] = "h5" =>
             result.kind # "raise" /\ model = disk.good.model[2]
      ELSE result.kind = "raise"

C10_RestartSetting ==
  result.kind # "" /\ "restart" \in DOMAIN gParameters =>
    /\ gParameters["restart"] = PyStr("OFF") =>
         result.kind = "None" /\ model = 0
    /\ (gParameters["restart"] = PyStr("REQUIRED")
          /\ ~FileExists(disk.good, "model")) =>
         result.kind = "raise"

\* restart was called by the process that follows one that died inside a
\* save event, at the step call.at
RestartedAfter(step) == result.kind # "" /\ call.at = step

\* C11: the process dies right after the rename ckpt-work -> ckpt-good, before
\* ckpt-old is deleted (or half-way through deleting it).  The restart that
\* follows, not disabled and with the checksum setting of the save, raises
\* nothing, returns a descriptor whose epoch is the epoch of the interrupted
\* save event, and leaves the model with the weights that save wrote.
C11_CrashAfterPromotion ==
  (RestartedAfter("clean")
    /\ ~SetFalse(gParameters, "restart")
    /\ ((disk.good.wck = "off") <=> SetFalse(gParameters, "checksum"))) =>
    /\ result.kind = "J"
    /\ result.J["epoch"] = PyNum(promoted.epoch)
    /\ model = promoted.model

\* such a restart, with the previous generation still in ckpt-old
C11_Witness ==
  /\ RestartedAfter("clean") /\ call.had_good
  /\ pc = "restarted" /\ result.kind = "J"
  /\ Complete(disk.old)
  /\ promoted.epoch >= 1 /\ model = promoted.model

\* C12: when a save event that began with a ckpt-good returns, ckpt-old does
\* not exist if clean is enabled, and is the snapshot that was ckpt-good
\* before the save if it is not; ckpt-old then stays as it is through every
\* later call up to the rmtree of the next save event's rotation.  A save
\* event that began without a ckpt-good deletes nothing after the promotion.
\* When a save event returns, ckpt-work is gone and ckpt-good is the new
\* snapshot: ckpt-old is the only generation kept besides it.
C12_CleanPolicy ==
  /\ (Saved /\ call.had_good) =>
       IF Truthy(self.clean) THEN ~Exists(disk.old)
                             ELSE disk.old = call.good
  /\ (LiveCall /\ (call.ret # "True"
                     \/ pc \in {"write_model", "write_json", "rm_old"})) =>
       disk.old = call.old
  /\ (Saving /\ pc = "clean" /\ ~call.had_good) =>
       ~Truthy(do_clean) /\ ~Exists(disk.old)
  /\ (Saved /\ ~call.had_good) => ~Exists(disk.old)
  /\ Saved => ~Exists(disk.work) /\ disk.good = NewSnapshot

\* clean not enabled: the second save event has returned and the first
\* snapshot is kept in ckpt-old
C12_Witness ==
  /\ Saved /\ call.had_good /\ ~Truthy(self.clean)
  /\ Complete(disk.old) /\ disk.old = call.good
  /\ disk.good = NewSnapshot /\ disk.good # disk.old

\* C13 as stated: whenever no on_epoch_end call is executing, after calls that
\* returned (having saved, or skipped by skip_epochs, or turned down by the
\* best-only policy), ckpt-work does not exist, and so at most one of
\* ckpt-work and ckpt-old does.
C13_WorkOnlyWhileSaving ==
  (pc = "fit" /\ call.at = "returned") =>
    /\ ~Exists(disk.work)
    /\ ~(Exists(disk.work) /\ Exists(disk.old))

\* the values Python takes for false
Falsy == {PyNone, PyBool(FALSE), PyStr(""), PyNum(0)}
Present(key) == key \in DOMAIN gParameters

\* C14: enabled(config, key) is true iff the key is present with a true
\* value, disabled(config, key) is true iff the key is present with a false
\* value, both are false when the key is absent and they are never both true;
\* param(config, key, default) is config[key] when the key is present, a
\* false value included, and default otherwise.
C14_Resolver ==
  /\ result.kind = "enabled" =>
       (result.value <=> (Present(result.key)
                            /\ gParameters[result.key] \notin Falsy))
  /\ result.kind = "disabled" =>
       (result.value <=> (Present(result.key)
                            /\ gParameters[result.key] \in Falsy))
  /\ (result.kind \in {"enabled", "disabled"} /\ ~Present(result.key)) =>
       result.value = FALSE
  /\ \A key \in ConfigKeys :
       ~(enabled(gParameters, key) /\ disabled(gParameters, key))
  /\ result.kind = "param" =>
       result.value = IF Present(result.key) THEN gParameters[result.key]
                                            ELSE result.dflt

\* disabled was asked about an absent key, with another key set false
C14_Witness ==
  /\ result.kind = "disabled" /\ result.key = "restart"
  /\ ~Present("restart")
  /\ Present("clean") /\ gParameters["clean"] = PyBool(FALSE)
  /\ result.value = FALSE

\* C15: with save_best_only false, a call at an epoch >= skip_epochs passes
\* save_check whatever the logs hold, the tracked metric missing included,
\* with best_stat_last left as it was, and goes on to write a snapshot.
C15_SaveEverything ==
  (LiveCall /\ ~Truthy(self.save_best_only)
    /\ call.epoch >= self.skip_epochs[2]) =>
    /\ call.ret = "True"
    /\ self.best_stat_last = call.best
    /\ Saving \/ Saved

\* a save event of a later epoch has returned though the logs lack the metric
C15_Witness ==
  /\ Saved /\ ~Truthy(self.save_best_only)
  /\ self.skip_epochs[2] = 1 /\ call.epoch >= 1
  /\ Tracked \notin DOMAIN call.logs
  /\ self.best_stat_last = PyNum(Inf)
  /\ disk.good = NewSnapshot

\* the restart has the checksum setting directory d was written with
CksumAs(d) == (d.wck = "off") <=> SetFalse(gParameters, "checksum")

\* C16 as stated: after save events and a crash at any step of on_epoch_end,
\* a restart that is not disabled (and has the checksum setting of the
\* snapshot in ckpt-good, if there is one) returns the descriptor and loads
\* the weights of the last snapshot that was promoted, and returns None only
\* if none ever was.
C16_RestartFindsLatest ==
  (result.kind # "" /\ call.at \in SavePcs
    /\ ~SetFalse(gParameters, "restart")
    /\ (Exists(disk.good) => CksumAs(disk.good))) =>
    IF promoted = NoPromoted
      THEN result.kind = "None"
      ELSE /\ result.kind = "J"
           /\ result.J["epoch"] = PyNum(promoted.epoch)
           /\ model = promoted.model

\* C17: the descriptor's checksum field is "__DISABLED__" exactly when
\* checksumming was disabled as the snapshot was written, and is otherwise
\* the checksum of the model.h5 of that save event.  restart compares the
\* field with the file's checksum unless "checksum" is set false: a snapshot
\* written with checksumming disabled is loaded by a restart with "checksum"
\* set false and refused by one with "checksum" absent or true, and a
\* damaged model.h5 is refused for its checksum exactly when "checksum" is
\* not set false.
C17_ChecksumSentinel ==
  /\ FileExists(disk.good, "json") =>
       LET c == json_load(disk.good.json)["checksum"] IN
       /\ (c = PyStr("__DISABLED__")) <=> (disk.good.wck = "off")
       /\ (disk.good.wck = "on" /\ disk.good.model[1] = "h5") =>
            c = PyStr(ToString(Crc32(disk.good.model)))
  /\ (result.kind # "" /\ ~SetFalse(gParameters, "restart")
        /\ Complete(disk.good) /\ disk.good.wck = "off") =>
       IF SetFalse(gParameters, "checksum")
         THEN result.kind = "J" /\ model = disk.good.model[2]
         ELSE result.kind = "raise" /\ model = 0
  /\ (result.kind # "" /\ ~SetFalse(gParameters, "restart")
        /\ FileExists(disk.good, "json") /\ disk.good.model[1] = "flipped"
        /\ disk.good.wck = "on") =>
       ((result.exc = "TypeError") <=> ~SetFalse(gParameters, "checksum"))

\* a snapshot written with checksumming disabled, refused by a restart with
\* "checksum" set true
C17_Witness ==
  /\ pc = "failed" /\ result.kind = "raise"
  /\ Complete(disk.good) /\ disk.good.wck = "off"
  /\ json_load(disk.good.json)["checksum"] = PyStr("__DISABLED__")
  /\ "checksum" \in DOMAIN gParameters
  /\ gParameters["checksum"] = PyBool(TRUE)
  /\ model = 0

\* C18: restart leaves ckpt-work, ckpt-good and ckpt-old as they are, whether
\* it returns None, returns a descriptor or raises: across every step in
\* which a process starts and calls restart, the three directories and their
\* files are unchanged.
C18_RestartKeepsDisk ==
  [][(pc = "off" /\ pc' \in {"restarted", "failed"}) => disk' = disk]_vars

\* restart has returned None with an orphaned ckpt-work and ckpt-old on disk,
\* both whole, left by a process that died between the two renames
C18_Witness ==
  /\ pc = "restarted" /\ result.kind = "None"
  /\ call.at = "rename_work"
  /\ ~Exists(disk.good) /\ Complete(disk.work) /\ Complete(disk.old)

\* C19: best-only saving.  Whenever no on_epoch_end call is executing and
\* this callback has completed a save event, ckpt-good's descriptor records
\* the callback's best_stat_last and the epoch of the latest call that
\* passed save_check; no call leaves best_stat_last above what it was.
C19_DescriptorTracksBest ==
  /\ (pc = "fit" /\ Truthy(self.save_best_only) /\ accepted # {}) =>
       /\ Complete(disk.good)
       /\ json_load(disk.good.json)["best_stat_last"] = self.best_stat_last
       /\ json_load(disk.good.json)["epoch"] = PyNum(saved.epoch)
       /\ call.ret = "True" => saved.epoch = call.epoch
       /\ call.ret = "False" => saved.epoch < call.epoch
  /\ (LiveCall /\ Truthy(self.save_best_only)) =>
       self.best_stat_last[2] <= call.best[2]

\* a call with a worse metric has been turned down after a save event of
\* this callback
C19_Witness ==
  /\ pc = "fit" /\ Truthy(self.save_best_only) /\ accepted # {}
  /\ call.at = "returned" /\ call.ret = "False"
  /\ Tracked \in DOMAIN call.logs
  /\ call.logs[Tracked] > self.best_stat_last[2]
  /\ json_load(disk.good.json)["best_stat_last"] = self.best_stat_last
  /\ json_load(disk.good.json)["epoch"] = PyNum(saved.epoch)

=============================================================================
